---- MODULE Spec2Model ----
(***************************************************************************)
(* Model of app/serial_handler.py: the SerialHandler connection life cycle *)
(* (start / stop), the heartbeat task, the reconnect loop with exponential *)
(* backoff and the locked command exchange, as cooperatively scheduled     *)
(* asyncio tasks.  One action is one run of a task from one suspension     *)
(* point (an await that really suspends) to the next.                      *)
(***************************************************************************)
EXTENDS Integers, Sequences, FiniteSets, TLC

\* ---- bounds of the model ----
MaxCeiling == 3      \* reconnect_backoff_max ranges over 1..MaxCeiling
MaxLines == 1        \* non-blank lines the device sends within one drain
MaxTime == 1         \* distinct readings of the wall clock
MaxTokens == 2       \* pieces of text a device response is made of
MaxRaw == 3          \* lines readline() returns within one drain, blank ones included
MaxTail == 3         \* CR and LF characters at the end of a command
MaxCalls == 2        \* calls of _disconnect in a row

\* ---- tasks ----
Clients == {"c1", "c2"}
Loops == {"hb", "rc"}
Tasks == {"main", "hb", "rc"} \cup Clients

\* lines the device may put on the wire ("" is a blank line after strip())
LineKinds == {"", "power on", "power off", "ok"}

VARIABLES
    ceiling,             \* self.reconnect_backoff_max
    running,             \* self._running
    initialized,         \* self._initialized
    serial,              \* self._serial: "none" or "open"
    state,               \* self._state
    cached_power_state,  \* self._cached_power_state: "none", "true", "false"
    last_heartbeat,      \* self._last_heartbeat: 0 is None, else a clock reading
    reconnect_delay,     \* self._reconnect_delay
    lock,                \* self._lock: the owner, or "none"
    waiters,             \* self._lock: FIFO queue of tasks waiting for it
    pc,                  \* where each task is suspended
    lines,               \* response_lines of each task's exchange in progress
    cancelled,           \* tasks whose cancel() was requested and not yet delivered
    hist,                \* whether this behaviour records the history variables due, dropped and fresh
    due,                 \* history: per reconnect loop that began at the initial delay, the length its sleep in progress should have
    dropped,             \* history: the handle was dropped by another task during the send_command exchange in progress
    serial_handler,      \* dependencies._serial_handler: "none" or "set"
    response,            \* what the health probe called last answered
    parse,               \* the ResponseParser call made last: function, argument, whether it has returned, result
    request,             \* the set-type API request in progress or answered last
    toggle,              \* the mute-toggle requests in progress and the device's mute state
    fresh,               \* history: TRUE from a connection (_try_connect returns True, handle open) until the next backoff sleep begins
    ev                   \* history: what the last step did

\* the handler with its tasks and history; what lies outside the handler
handler == <<ceiling, running, initialized, serial, state, cached_power_state,
             last_heartbeat, reconnect_delay, lock, waiters, pc, lines,
             cancelled, hist, due, dropped, fresh, ev>>
api == <<serial_handler, response, parse, request, toggle>>

vars == <<handler, api>>

Min(a, b) == IF a < b THEN a ELSE b

\* ---- ConnectionState ----
UNAVAILABLE == "unavailable"
OFF == "off"
ON == "on"
ConnectionState == {UNAVAILABLE, OFF, ON}

\* datetime.now(UTC): every reading is later than the last contact recorded
now == Min(last_heartbeat + 1, MaxTime)

\* ---- __init__ ----
InitState == UNAVAILABLE
InitDelay == 1
InitInitialized == FALSE
InitRunning == FALSE

\* ---- the handler's fields as one value, so that methods compose ----
Self == [serial |-> serial, state |-> state, cached |-> cached_power_state,
         last |-> last_heartbeat, delay |-> reconnect_delay]

Commit(s) ==
    /\ serial' = s.serial
    /\ state' = s.state
    /\ cached_power_state' = s.cached
    /\ last_heartbeat' = s.last
    /\ reconnect_delay' = s.delay

is_connected_mut(s) == TRUE
is_connected(s) == s.serial = "open"

\* _disconnect: close if open, drop the handle, UNAVAILABLE, forget the power
disconnect_mut(s) == [s EXCEPT !.serial = "none", !.state = UNAVAILABLE]
disconnect_clears_mut(s) ==
    [s EXCEPT !.serial = "none", !.state = UNAVAILABLE, !.cached = "none", !.last = 0]
disconnect(s) == [s EXCEPT !.serial = "none", !.state = UNAVAILABLE, !.cached = "none"]

\* "power on" in response.lower(), on a response made of joined lines
ContainsPowerOn(resp) == \E i \in 1..Len(resp) : resp[i] = "power on"
ContainsPowerOff(resp) == \E i \in 1..Len(resp) : resp[i] = "power off"

\* _check_power_state, from the return of _send_command_internal on;
\* <<>> stands for the None response
check_power_state_mut(s, resp, t) ==
    IF resp # <<>>
    THEN IF ContainsPowerOn(resp)
         THEN [s EXCEPT !.state = ON, !.cached = "true", !.last = t]
         ELSE IF ContainsPowerOff(resp)
         THEN [s EXCEPT !.state = OFF, !.cached = "false", !.last = t]
         ELSE [s EXCEPT !.cached = "none", !.last = t]
    ELSE [s EXCEPT !.state = UNAVAILABLE]
check_power_state(s, resp, t) ==
    IF resp # <<>>
    THEN IF ContainsPowerOn(resp)
         THEN [s EXCEPT !.state = ON, !.cached = "true", !.last = t]
         ELSE IF ContainsPowerOff(resp)
         THEN [s EXCEPT !.state = OFF, !.cached = "false", !.last = t]
         ELSE [s EXCEPT !.state = ON, !.cached = "none", !.last = t]
    ELSE [s EXCEPT !.state = UNAVAILABLE]

\* a task that was never made ("none"), has returned or was cancelled ("done"),
\* or has ended with an exception ("failed"): not self._task, or _task.done()
EndedPcs == {"none", "done", "failed"}

\* min(self._reconnect_delay * 2, self.reconnect_backoff_max)
NextDelay_mut(d, c) == d * 2
NextDelay(d, c) == Min(d * 2, c)

\* _schedule_reconnect, on the tasks' positions: a new task unless one is pending
schedule_reconnect_mut(p) == p
schedule_reconnect(p) ==
    IF p["rc"] \notin EndedPcs THEN p ELSE [p EXCEPT !["rc"] = "start"]

\* ---- _try_connect ----
\* what the attempt meets: the path is missing, serial.Serial raises a
\* SerialException, the probe's write raises, or the probe's command is written;
\* or an exception that is no SerialException escapes, from serial.Serial
\* ("openraise") or from the buffer resets that follow it ("flushraise")
ConnectOutcomes == {"missing", "openfail", "writefail", "ok", "openraise", "flushraise"}

\* serial.Serial() returns a handle in the outcomes but these
OpenFails == {"missing", "openfail", "openraise"}

\* what the attempt with outcome o opens when the handler is s: the handle is
\* assigned to self._serial whatever that held
opens(s, o) ==
    IF o \in OpenFails THEN "no" ELSE IF is_connected(s) THEN "over" ELSE "new"

\* _try_connect up to its first suspension
try_connect_begin(s, o, t) ==
    CASE o = "missing" ->
           [s |-> [s EXCEPT !.state = UNAVAILABLE], res |-> "false"]
      [] o = "openfail" ->
           [s |-> [s EXCEPT !.state = UNAVAILABLE], res |-> "false"]
      [] o = "writefail" ->
           [s |-> [check_power_state([s EXCEPT !.serial = "open"], <<>>, t)
                     EXCEPT !.delay = InitDelay],
            res |-> "true"]
      [] o = "ok" ->
           [s |-> [s EXCEPT !.serial = "open"], res |-> "pending"]
      [] o = "openraise" ->
           [s |-> s, res |-> "raise"]
      [] o = "flushraise" ->
           [s |-> [s EXCEPT !.serial = "open"], res |-> "raise"]

\* _try_connect from the return of its probe's exchange on: it returns True
try_connect_end(s, resp, t) ==
    [check_power_state(s, resp, t) EXCEPT !.delay = InitDelay]

\* ---- positions ----
\* between the write of an exchange and the end of its drain, asleep in the
\* settle sleep or in a poll sleep (both resume at the test of in_waiting):
\* in send_command, in the heartbeat's probe, in the probe of _try_connect
XchgPcs == {"drain", "p_drain", "r_drain"}
InExchange(t) == pc[t] \in XchgPcs

InLoop(t) == pc[t] \in {"r_drain", "r_backoff"}

\* while self._running: at the top of _heartbeat_loop
HbTop == IF running THEN "sleep" ELSE "done"
\* where a task goes on when its _try_reconnect returns
AfterLoop(t) == IF t = "hb" THEN HbTop ELSE "done"

\* except Exception in _heartbeat_loop: the error is logged and the loop goes on
\* to its test, top
tick_raised_mut(top) == "done"
tick_raised(top) == top
\* where a task goes on when its _try_reconnect raises: the reconnect task has
\* no handler and ends with the exception
AfterRaise(t) == IF t = "hb" THEN tick_raised(HbTop) ELSE "failed"

\* what a step did: ret, what start, stop or send_command returned in it, and io,
\* whether the returning send_command wrote to or read from the transport in it;
\* conn, what _try_connect returned to who, and first, whether the backoff sleep
\* that follows is the first since a successful connection; probe, whether
\* _check_power_state completed, and reply, on which reply (for a send_command
\* that returns ok, the reply returned); fault, what the step's last use of the
\* transport met ("error": the transport raised, "gone": the handle was None);
\* was, the state in which a heartbeat probe that completed was still pending;
\* opened, whether serial.Serial() opened the endpoint in the step, and then
\* with no open handle held ("new") or over one ("over")
NoEv == [io |-> FALSE, ret |-> "none", conn |-> "none", who |-> "none", first |-> FALSE,
         probe |-> FALSE, reply |-> <<>>, fault |-> "none", was |-> "none",
         opened |-> "no"]

\* HealthResponse, without its uptime; code is the HTTP status, path the probe
HealthResponse(p, c, st, conn, ds, lh) ==
    [path |-> p, code |-> c, status |-> st, serial_connected |-> conn,
     device_state |-> ds, last_heartbeat |-> lh]
NoResponse == HealthResponse("none", 0, "none", FALSE, UNAVAILABLE, 0)

\* what an endpoint answers: the HTTP status, and the error and retry_after of
\* the ErrorResponse it raises; no answer yet is code 0
Answer(c, e, r) == [code |-> c, error |-> e, retry_after |-> r]
NoAnswer == Answer(0, "none", 0)

\* no request yet. endpoint names the router function; valid, a, b are the
\* request's inputs; prog is the endpoint's steps and at the step it is at;
\* entry is the ConnectionState when the request's handling began, sends counts
\* its send_command calls, failed tells that a setting command returned
\* ok=false
NoRequest == [endpoint |-> "none", valid |-> TRUE, a |-> FALSE, b |-> FALSE,
              prog |-> <<>>, at |-> 0, entry |-> UNAVAILABLE, sends |-> 0,
              failed |-> FALSE, answer |-> NoAnswer]

\* no mute-toggle request yet. muted is the device's mute state and before its
\* value when the first request arrived; at is the step each request is at in
\* the endpoint's program (0: not arrived), current_muted what it read
NoToggle == [muted |-> FALSE, before |-> FALSE,
             at |-> [c \in Clients |-> 0],
             current_muted |-> [c \in Clients |-> FALSE]]

\* no ResponseParser call yet
NoParse == [fn |-> "none", arg |-> <<>>, done |-> FALSE, ret |-> <<>>]

\* the tasks and the history of a handler that has just been constructed
InitTasks ==
    /\ lock = "none"
    /\ waiters = <<>>
    /\ pc = [t \in Tasks |-> CASE t = "main" -> "init"
                               [] t \in Loops -> "none"
                               [] OTHER -> "idle"]
    /\ lines = [t \in Tasks |-> <<>>]
    /\ cancelled = {}
    /\ due = [t \in Loops |-> 0]
    /\ dropped = FALSE
    /\ fresh = TRUE
    /\ ev = NoEv
    /\ response = NoResponse
    /\ parse = NoParse
    /\ request = NoRequest
    /\ toggle = NoToggle

\* lifespan: the handler is constructed and registered, start() is next
InitHandler ==
    /\ ceiling \in 1..MaxCeiling
    /\ serial_handler = "set"
    /\ running = InitRunning
    /\ initialized = InitInitialized
    /\ serial = "none"
    /\ state = InitState
    /\ cached_power_state = "none"
    /\ last_heartbeat = 0
    /\ reconnect_delay = InitDelay
    /\ InitTasks

Init == InitHandler /\ hist = FALSE
\* the same program, with its history recorded
InitHist == InitHandler /\ hist = TRUE

\* ---- start ----
\* _initialized while start() awaits _try_connect: set only after it returns
initialized_while_connecting_mut(i) == TRUE
initialized_while_connecting(i) == i

\* start(): _running, one _try_connect; if that does not suspend, the rest too
Start ==
    /\ pc["main"] = "init"
    /\ running' = TRUE
    /\ \E o \in ConnectOutcomes :
         LET r == try_connect_begin(Self, o, now) IN
         /\ Commit(r.s)
         /\ CASE r.res = "pending" ->
                 /\ pc' = [pc EXCEPT !["main"] = "r_drain"]
                 /\ initialized' = initialized_while_connecting(initialized)
                 /\ UNCHANGED fresh
                 /\ ev' = [NoEv EXCEPT !.opened = opens(Self, o)]
              [] r.res = "raise" ->
                 \* start() raises: _initialized stays False, no heartbeat task
                 /\ pc' = [pc EXCEPT !["main"] = "start_failed"]
                 /\ UNCHANGED <<initialized, fresh>>
                 /\ ev' = [NoEv EXCEPT !.conn = "raise", !.who = "main",
                                       !.ret = "start_raised",
                                       !.opened = opens(Self, o)]
              [] OTHER ->
                 /\ pc' = [pc EXCEPT !["main"] = "started", !["hb"] = "sleep"]
                 /\ initialized' = TRUE
                 /\ fresh' = IF r.res = "true" THEN TRUE ELSE fresh
                 /\ ev' = [NoEv EXCEPT !.conn = r.res, !.who = "main",
                             !.probe = (r.res = "true"), !.ret = "started",
                             !.fault = IF r.res = "true" THEN "error" ELSE "none",
                             !.opened = opens(Self, o)]
    /\ lines' = [lines EXCEPT !["main"] = <<>>]
    /\ UNCHANGED <<ceiling, hist, api, lock, waiters, cancelled, due, dropped>>

\* ---- _try_reconnect: from the loop test to the next suspension ----
\* while self._running and not self.is_connected
loop_test_mut(r, s) == ~is_connected(s)
loop_test_blind_mut(r, s) == r
loop_test(r, s) == r /\ ~is_connected(s)

\* t runs the loop; s is the handler, q the positions, g the sleep due on entry
LoopIter(t, s, q, g) ==
    IF ~loop_test(running, s)
    THEN /\ Commit(s)
         /\ pc' = [q EXCEPT ![t] = AfterLoop(t)]
         /\ due' = [due EXCEPT ![t] = 0]
         /\ UNCHANGED fresh
         /\ ev' = NoEv
    ELSE \E o \in ConnectOutcomes :
         LET r == try_connect_begin(s, o, now) IN
         /\ Commit(r.s)
         /\ CASE r.res = "false" ->
                   \* await asyncio.sleep(self._reconnect_delay)
                   /\ pc' = [q EXCEPT ![t] = "r_backoff"]
                   /\ due' = [due EXCEPT ![t] = IF hist THEN g ELSE 0]
                   /\ fresh' = ~hist
                   /\ ev' = [NoEv EXCEPT !.conn = "false", !.who = t,
                                         !.first = fresh, !.opened = opens(s, o)]
              [] r.res = "true" ->
                   /\ pc' = [q EXCEPT ![t] = AfterLoop(t)]
                   /\ due' = [due EXCEPT ![t] = 0]
                   /\ fresh' = TRUE
                   /\ ev' = [NoEv EXCEPT !.conn = "true", !.who = t,
                                         !.probe = TRUE, !.fault = "error",
                                         !.opened = opens(s, o)]
              [] r.res = "pending" ->
                   \* this attempt will return True: the loop sleeps no more
                   /\ pc' = [q EXCEPT ![t] = "r_drain"]
                   /\ due' = [due EXCEPT ![t] = 0]
                   /\ UNCHANGED fresh
                   /\ ev' = [NoEv EXCEPT !.opened = opens(s, o)]
              [] r.res = "raise" ->
                   \* the exception leaves _try_reconnect
                   /\ pc' = [q EXCEPT ![t] = AfterRaise(t)]
                   /\ due' = [due EXCEPT ![t] = 0]
                   /\ UNCHANGED fresh
                   /\ ev' = [NoEv EXCEPT !.conn = "raise", !.who = t,
                                         !.opened = opens(s, o)]

\* the sleep due first in a loop that begins now
NewLoop == IF reconnect_delay = InitDelay THEN 1 ELSE 0

\* the task made by _schedule_reconnect runs for the first time
RcStart ==
    /\ pc["rc"] = "start"
    /\ "rc" \notin cancelled
    /\ LoopIter("rc", Self, pc, NewLoop)
    /\ lines' = [lines EXCEPT !["rc"] = <<>>]
    /\ UNCHANGED <<ceiling, hist, api, running, initialized, lock, waiters, cancelled, dropped>>

\* the backoff sleep of a loop ends: double the delay, next iteration
Wake(t) ==
    /\ pc[t] = "r_backoff"
    /\ t \notin cancelled
    /\ LoopIter(t, [Self EXCEPT !.delay = NextDelay(reconnect_delay, ceiling)], pc,
                Min(due[t] * 2, ceiling))
    /\ lines' = [lines EXCEPT ![t] = <<>>]
    /\ UNCHANGED <<ceiling, hist, api, running, initialized, lock, waiters, cancelled, dropped>>

\* this step's _disconnect drops the handle under a send_command exchange
Dropping ==
    hist /\ (dropped \/ (serial = "open" /\ \E c \in Clients : InExchange(c)))

\* ---- _heartbeat_loop ----
\* the period's sleep ends: probe if connected, else run _try_reconnect here
HbTick ==
    /\ pc["hb"] = "sleep"
    /\ "hb" \notin cancelled
    /\ lines' = [lines EXCEPT !["hb"] = <<>>]
    /\ IF ~running
       THEN /\ pc' = [pc EXCEPT !["hb"] = "done"]
            /\ ev' = NoEv
            /\ UNCHANGED <<serial, state, cached_power_state, last_heartbeat,
                           reconnect_delay, due, dropped, fresh>>
       ELSE IF is_connected(Self)
       THEN \E w \in {"ok", "writefail"} :
            IF w = "ok"
            THEN /\ pc' = [pc EXCEPT !["hb"] = "p_drain"]
                 /\ ev' = NoEv
                 /\ UNCHANGED <<serial, state, cached_power_state, last_heartbeat,
                                reconnect_delay, due, dropped, fresh>>
            ELSE \* the write raises: no response, UNAVAILABLE, disconnect, schedule
                 /\ Commit(disconnect(check_power_state(Self, <<>>, now)))
                 /\ pc' = [schedule_reconnect(pc) EXCEPT !["hb"] = HbTop]
                 /\ ev' = [NoEv EXCEPT !.probe = TRUE, !.fault = "error", !.was = state]
                 /\ dropped' = Dropping
                 /\ UNCHANGED <<due, fresh>>
       ELSE /\ LoopIter("hb", Self, pc, NewLoop)
            /\ UNCHANGED dropped
    /\ UNCHANGED <<ceiling, hist, api, running, initialized, lock, waiters, cancelled>>

\* ---- _send_command_internal: the drain ----
\* what a poll of the transport meets: nothing waiting, an error (also the
\* handle having been dropped by another task), or one more line
\* the lines the device may send after the lines ls: replies are drawn up to
\* the order and the repetition of their non-blank lines, which the substring
\* tests of _check_power_state do not tell apart
LineRank(k) == CASE k = "" -> 0 [] k = "power on" -> 1 [] k = "power off" -> 2 [] OTHER -> 3
MoreLines(ls) ==
    {k \in LineKinds : k = "" \/ ls = <<>> \/ LineRank(k) > LineRank(ls[Len(ls)])}

ReadChoices(t) ==
    IF serial = "none" THEN {"err"}
    ELSE {"empty", "err"} \cup (IF Len(lines[t]) < MaxLines THEN MoreLines(lines[t]) ELSE {})

\* send_command returns in c and the lock is released; q is the positions
\* and w the lock's queue as the call leaves them. c1 and c2 name the calls
\* in progress by age, c1 the older: when c1 returns, the call that was c2
\* is c1 from then on
Leave(c, q, w) ==
    /\ IF c = "c1" /\ pc["c2"] # "idle"
       THEN /\ pc' = [q EXCEPT !["c1"] = pc["c2"], !["c2"] = "idle"]
            /\ lines' = [lines EXCEPT !["c1"] = lines["c2"], !["c2"] = <<>>]
            /\ waiters' = [i \in 1..Len(w) |-> "c1"]
       ELSE /\ pc' = [q EXCEPT ![c] = "idle"]
            /\ lines' = [lines EXCEPT ![c] = <<>>]
            /\ waiters' = w
    /\ lock' = "none"

\* send_command with a response, at time t: it returns the response and
\* writes none of the handler's fields
send_ok_mut(s, t) == [s EXCEPT !.last = t]
send_ok(s, t) == s

\* the exchange of task t ends with response resp (<<>> is None); f is the
\* fault met by its last poll of the transport
Finish(t, resp, f) ==
    CASE t \in Clients ->
           \* send_command after _send_command_internal
           /\ IF resp = <<>>
              THEN /\ Commit(disconnect(Self))
                   /\ Leave(t, schedule_reconnect(pc), waiters)
                   /\ ev' = [NoEv EXCEPT !.io = TRUE, !.ret = "communication_error",
                                         !.fault = f]
              ELSE /\ Commit(send_ok(Self, now))
                   /\ Leave(t, pc, waiters)
                   /\ ev' = [NoEv EXCEPT !.io = TRUE, !.ret = "ok", !.reply = resp,
                                         !.fault = f]
           /\ dropped' = FALSE
           /\ UNCHANGED <<initialized, due, fresh>>
      [] t = "main" ->
           \* _try_connect returns True, start goes on
           /\ Commit(try_connect_end(Self, resp, now))
           /\ pc' = [pc EXCEPT !["main"] = "started", !["hb"] = "sleep"]
           /\ initialized' = TRUE
           /\ fresh' = TRUE
           /\ ev' = [NoEv EXCEPT !.conn = "true", !.who = t, !.probe = TRUE,
                                 !.reply = resp, !.ret = "started", !.fault = f]
           /\ lines' = [lines EXCEPT ![t] = <<>>]
           /\ UNCHANGED <<lock, waiters, due, dropped>>
      [] t = "hb" /\ pc[t] = "p_drain" ->
           \* _heartbeat_loop after _check_power_state
           LET s1 == check_power_state(Self, resp, now) IN
           /\ IF s1.state = UNAVAILABLE
              THEN /\ Commit(disconnect(s1))
                   /\ pc' = [schedule_reconnect(pc) EXCEPT ![t] = HbTop]
                   /\ dropped' = Dropping
              ELSE /\ Commit(s1)
                   /\ pc' = [pc EXCEPT ![t] = HbTop]
                   /\ UNCHANGED dropped
           /\ ev' = [NoEv EXCEPT !.probe = TRUE, !.reply = resp, !.fault = f,
                                 !.was = state]
           /\ lines' = [lines EXCEPT ![t] = <<>>]
           /\ UNCHANGED <<initialized, lock, waiters, due, fresh>>
      [] OTHER ->
           \* _try_connect returns True inside _try_reconnect: the loop returns
           /\ Commit(try_connect_end(Self, resp, now))
           /\ pc' = [pc EXCEPT ![t] = AfterLoop(t)]
           /\ due' = [due EXCEPT ![t] = 0]
           /\ fresh' = (fresh \/ serial = "open")
           /\ ev' = [NoEv EXCEPT !.conn = "true", !.who = t, !.probe = TRUE,
                                 !.reply = resp, !.fault = f]
           /\ lines' = [lines EXCEPT ![t] = <<>>]
           /\ UNCHANGED <<initialized, lock, waiters, dropped>>

\* the fault behind read choice r: the handle is gone (self._serial is None),
\* or the transport raised
PollFault(r) ==
    IF r # "err" THEN "none" ELSE IF serial = "none" THEN "gone" ELSE "error"

\* what _send_command_internal returns after read choice r with the lines ls
\* collected: None (<<>>) from its except clauses, else the joined lines
internal_response_mut(r, ls) == ls
internal_response(r, ls) == IF r = "err" THEN <<>> ELSE ls

\* the settle sleep or a poll sleep of task t's exchange ends
Drain(t) ==
    /\ InExchange(t)
    /\ t \notin cancelled
    /\ \E r \in ReadChoices(t) :
         IF r \in LineKinds
         THEN /\ lines' = [lines EXCEPT ![t] = IF r = "" THEN @ ELSE Append(@, r)]
              /\ UNCHANGED pc
              /\ ev' = NoEv
              /\ UNCHANGED <<serial, state, cached_power_state, last_heartbeat,
                             reconnect_delay, initialized, lock, waiters, due,
                             dropped, fresh>>
         ELSE Finish(t, internal_response(r, lines[t]), PollFault(r))
    /\ UNCHANGED <<ceiling, hist, api, running, cancelled>>

\* ---- send_command ----
\* asyncio.Lock.acquire does not suspend when the lock is free and nobody waits
LockFree_mut == TRUE
LockFree == lock = "none" /\ waiters = <<>>

\* send_command with the lock held, up to its first suspension or its
\* return; wq is the lock's queue once c has taken the lock
SendBody(c, wq) ==
    IF ~is_connected(Self)
    THEN /\ Leave(c, pc, wq)
         /\ dropped' = FALSE
         /\ ev' = [NoEv EXCEPT !.ret = "device_unavailable"]
         /\ UNCHANGED <<serial, state, cached_power_state, last_heartbeat, reconnect_delay>>
    ELSE \E w \in {"ok", "writefail"} :
         IF w = "ok" /\ serial = "open"
         THEN /\ pc' = [pc EXCEPT ![c] = "drain"]
              /\ lock' = c
              /\ waiters' = wq
              /\ dropped' = FALSE
              /\ ev' = NoEv
              /\ UNCHANGED lines
              /\ UNCHANGED <<serial, state, cached_power_state, last_heartbeat, reconnect_delay>>
         ELSE /\ Commit(disconnect(Self))
              /\ Leave(c, schedule_reconnect(pc), wq)
              /\ dropped' = FALSE
              /\ ev' = [NoEv EXCEPT !.io = (serial = "open"), !.ret = "communication_error",
                                    !.fault = "error"]

\* a request handler calls send_command; requests are served between start
\* and stop, and a new call is the youngest of the calls in progress
CallSend(c) ==
    /\ pc[c] = "idle"
    /\ pc["main"] = "started"
    /\ c = "c2" => pc["c1"] # "idle"
    /\ IF LockFree
       THEN SendBody(c, waiters)
       ELSE /\ pc' = [pc EXCEPT ![c] = "wait"]
            /\ waiters' = Append(waiters, c)
            /\ ev' = NoEv
            /\ UNCHANGED <<serial, state, cached_power_state, last_heartbeat,
                           reconnect_delay, lock, lines, dropped>>
    /\ UNCHANGED <<ceiling, hist, api, running, initialized, cancelled, due, fresh>>

\* asyncio.Lock wakes its waiters first come, first served
wake_up_mut(w) == [who |-> w[Len(w)], rest |-> SubSeq(w, 1, Len(w) - 1)]
wake_up(w) == [who |-> Head(w), rest |-> Tail(w)]

\* the first waiter is woken by the release and takes the lock
Acquire(c) ==
    /\ pc[c] = "wait"
    /\ lock = "none"
    /\ waiters # <<>> /\ wake_up(waiters).who = c
    /\ SendBody(c, wake_up(waiters).rest)
    /\ UNCHANGED <<ceiling, hist, api, running, initialized, cancelled, due, fresh>>

\* ---- stop ----
\* stop() up to its first suspension: _running = False, cancel the heartbeat
\* task and await it
stop_begin ==
    /\ pc["main"] = "started"
    /\ running' = FALSE
    /\ cancelled' = cancelled \cup (IF pc["hb"] = "done" THEN {} ELSE {"hb"})
    /\ pc' = [pc EXCEPT !["main"] = "stop_hb"]
    /\ ev' = NoEv
    /\ UNCHANGED <<ceiling, hist, api, initialized, serial, state, cached_power_state, last_heartbeat,
                   reconnect_delay, lock, waiters, lines, due, dropped, fresh>>

\* the server runs the shutdown once the requests in progress are answered
Stop ==
    /\ \A c \in Clients : pc[c] = "idle"
    /\ stop_begin

\* stop() called while send_command calls are in progress: stop() itself does
\* not wait for them
StopBusy ==
    /\ \E c \in Clients : pc[c] # "idle"
    /\ stop_begin

\* a cancelled task gets CancelledError at its suspension point and ends
CancelDeliver(t) ==
    /\ t \in cancelled
    /\ cancelled' = cancelled \ {t}
    /\ pc' = [pc EXCEPT ![t] = "done"]
    /\ lines' = [lines EXCEPT ![t] = <<>>]
    /\ due' = [due EXCEPT ![t] = 0]
    /\ ev' = NoEv
    /\ UNCHANGED <<ceiling, hist, api, running, initialized, serial, state, cached_power_state,
                   last_heartbeat, reconnect_delay, lock, waiters, dropped, fresh>>

\* stop() has a reconnect task to cancel and wait for: one that has not ended
\* (cancel() and await on a task that is done do nothing and do not suspend)
stop_awaits_reconnect_mut(p) == FALSE
stop_awaits_reconnect(p) == p["rc"] \notin EndedPcs

\* stop() once the heartbeat task has ended: cancel the reconnect task and
\* await it; with no task, or one that is done, go straight to _disconnect
StopJoinHb ==
    /\ pc["main"] = "stop_hb"
    /\ "hb" \notin cancelled
    /\ CASE pc["rc"] = "failed" ->
              \* await on a task that ended with an exception raises it: stop()
              \* raises before its _disconnect
              /\ pc' = [pc EXCEPT !["main"] = "stop_failed"]
              /\ ev' = [NoEv EXCEPT !.ret = "stop_raised"]
              /\ UNCHANGED <<cancelled, serial, state, cached_power_state,
                             last_heartbeat, reconnect_delay>>
         [] pc["rc"] # "failed" /\ ~stop_awaits_reconnect(pc) ->
              /\ Commit(disconnect(Self))
              /\ pc' = [pc EXCEPT !["main"] = "stopped"]
              /\ ev' = [NoEv EXCEPT !.ret = "stopped"]
              /\ UNCHANGED cancelled
         [] OTHER ->
              /\ cancelled' = cancelled \cup {"rc"}
              /\ pc' = [pc EXCEPT !["main"] = "stop_rc"]
              /\ ev' = NoEv
              /\ UNCHANGED <<serial, state, cached_power_state, last_heartbeat,
                             reconnect_delay>>
    /\ UNCHANGED <<ceiling, hist, api, running, initialized, lock, waiters, lines, due, dropped, fresh>>

\* stop() once the reconnect task has ended: _disconnect
StopJoinRc ==
    /\ pc["main"] = "stop_rc"
    /\ "rc" \notin cancelled
    /\ Commit(disconnect(Self))
    /\ pc' = [pc EXCEPT !["main"] = "stopped"]
    /\ ev' = [NoEv EXCEPT !.ret = "stopped"]
    /\ UNCHANGED <<ceiling, hist, api, running, initialized, lock, waiters, lines, cancelled,
                   due, dropped, fresh>>

Next ==
    \/ Start
    \/ HbTick
    \/ RcStart
    \/ \E t \in Loops : Wake(t)
    \/ \E t \in Tasks : Drain(t)
    \/ \E c \in Clients : CallSend(c)
    \/ \E c \in Clients : Acquire(c)
    \/ Stop
    \/ \E t \in Loops : CancelDeliver(t)
    \/ StopJoinHb
    \/ StopJoinRc

Spec == Init /\ [][Next]_vars
SpecHist == InitHist /\ [][Next]_vars

\* the same program when stop() may be called with requests in progress
NextBusy == Next \/ StopBusy
SpecBusy == Init /\ [][NextBusy]_vars

\* ---- routers/health.py ----
\* get_serial_handler raises RuntimeError when no handler is registered
get_serial_handler_raises(h) == h = "none"

\* "ok" if handler.is_connected else "degraded"
ready_status_mut(conn) == "ok"
ready_status(conn) == IF conn THEN "ok" ELSE "degraded"

\* readiness_probe, on the registry h, the handler s and its _initialized
readiness_probe(h, s, init) ==
    IF get_serial_handler_raises(h)
    THEN HealthResponse("/healthz/ready", 503, "error", FALSE, UNAVAILABLE, 0)
    ELSE IF ~init
    THEN HealthResponse("/healthz/ready", 503, "error", FALSE, UNAVAILABLE, 0)
    ELSE HealthResponse("/healthz/ready", 200, ready_status(is_connected(s)),
                        is_connected(s), s.state, s.last)

\* liveness_probe
liveness_probe(h, s) ==
    IF get_serial_handler_raises(h)
    THEN HealthResponse("/healthz/live", 200, "ok", FALSE, UNAVAILABLE, 0)
    ELSE HealthResponse("/healthz/live", 200, "ok", is_connected(s), s.state, s.last)

\* what the handler's fields can be when a probe reads them: before start()
\* has set _initialized nothing but the handle has changed; a power state is
\* known only from a probe, which stamps the last contact
HandlerShape ==
    /\ ~initialized => /\ state = UNAVAILABLE /\ cached_power_state = "none"
                       /\ last_heartbeat = 0 /\ reconnect_delay = InitDelay
    /\ state = OFF => cached_power_state = "false"
    /\ state = ON => cached_power_state \in {"true", "none"}
    /\ state # UNAVAILABLE => last_heartbeat # 0
    /\ cached_power_state # "none" => last_heartbeat # 0
    /\ reconnect_delay <= ceiling

\* the inputs of the probes: no handler registered, or one in any shape
InitHealth ==
    /\ ceiling \in 1..MaxCeiling
    /\ hist = FALSE
    /\ serial_handler \in {"none", "set"}
    /\ running = (serial_handler = "set")
    /\ initialized \in BOOLEAN
    /\ serial \in {"none", "open"}
    /\ state \in ConnectionState
    /\ cached_power_state \in {"none", "true", "false"}
    /\ last_heartbeat \in 0..MaxTime
    /\ reconnect_delay \in 1..MaxCeiling
    /\ HandlerShape
    /\ serial_handler = "none" => /\ ~initialized /\ serial = "none"
    /\ InitTasks

ReadinessProbe ==
    /\ response' = readiness_probe(serial_handler, Self, initialized)
    /\ UNCHANGED <<handler, serial_handler, parse, request, toggle>>

LivenessProbe ==
    /\ response' = liveness_probe(serial_handler, Self)
    /\ UNCHANGED <<handler, serial_handler, parse, request, toggle>>

NextHealth == ReadinessProbe \/ LivenessProbe

SpecHealth == InitHealth /\ [][NextHealth]_vars

\* ---- commands.py: ResponseParser ----
\* a str is a sequence of characters; None is <<>> and a value v is <<v>>
Lowercase == <<"a", "b", "c", "d", "e", "f", "g", "h", "i", "j", "k", "l", "m",
               "n", "o", "p", "q", "r", "s", "t", "u", "v", "w", "x", "y", "z">>
Uppercase == <<"A", "B", "C", "D", "E", "F", "G", "H", "I", "J", "K", "L", "M",
               "N", "O", "P", "Q", "R", "S", "T", "U", "V", "W", "X", "Y", "Z">>

\* str.lower(), on the characters of the responses
lower_mut(t) == t
lower(t) ==
    [i \in 1..Len(t) |->
        IF \E n \in 1..26 : Uppercase[n] = t[i]
        THEN Lowercase[CHOOSE n \in 1..26 : Uppercase[n] = t[i]]
        ELSE t[i]]

\* sub in t
contains_mut(sub, t) ==
    Len(sub) <= Len(t) /\ \A j \in 1..Len(sub) : t[j] = sub[j]
contains(sub, t) ==
    \E i \in 0..(Len(t) - Len(sub)) : \A j \in 1..Len(sub) : t[i + j] = sub[j]

Some(v) == <<v>>
None == <<>>

POWER_ON == <<"p", "o", "w", "e", "r", " ", "o", "n">>
POWER_OFF == <<"p", "o", "w", "e", "r", " ", "o", "f", "f">>

parse_power(resp) ==
    IF contains(POWER_ON, lower(resp)) THEN Some(TRUE)
    ELSE IF contains(POWER_OFF, lower(resp)) THEN Some(FALSE)
    ELSE None

MUTE_ON == <<"m", "u", "t", "e", ":", " ", "o", "n">>
MUTE_OFF == <<"m", "u", "t", "e", ":", " ", "o", "f", "f">>

parse_mute(resp) ==
    IF contains(MUTE_ON, lower(resp)) THEN Some(TRUE)
    ELSE IF contains(MUTE_OFF, lower(resp)) THEN Some(FALSE)
    ELSE None

parse_multiview_mode(resp) ==
    LET response_lower == lower(resp) IN
    IF contains(<<"s", "i", "n", "g", "l", "e">>, response_lower) THEN Some("single")
    ELSE IF contains(<<"p", "i", "p">>, response_lower) THEN Some("pip")
    ELSE IF contains(<<"p", "b", "p">>, response_lower) THEN Some("pbp")
    ELSE IF contains(<<"t", "r", "i", "p", "l", "e">>, response_lower) THEN Some("triple")
    ELSE IF contains(<<"q", "u", "a", "d">>, response_lower) THEN Some("quad")
    ELSE None

parse_audio_source(resp) ==
    LET response_lower == lower(resp) IN
    IF contains(<<"f", "o", "l", "l", "o", "w">>, response_lower) THEN Some(0)
    ELSE IF contains(<<"h", "d", "m", "i", " ", "1">>, response_lower) THEN Some(1)
    ELSE IF contains(<<"h", "d", "m", "i", " ", "2">>, response_lower) THEN Some(2)
    ELSE IF contains(<<"h", "d", "m", "i", " ", "3">>, response_lower) THEN Some(3)
    ELSE IF contains(<<"h", "d", "m", "i", " ", "4">>, response_lower) THEN Some(4)
    ELSE None

parse_hdcp(resp) ==
    LET response_lower == lower(resp) IN
    IF contains(<<"h", "d", "c", "p", " ", "1", ".", "4">>, response_lower) THEN Some("hdcp_1_4")
    ELSE IF contains(<<"h", "d", "c", "p", " ", "2", ".", "2">>, response_lower) THEN Some("hdcp_2_2")
    ELSE IF contains(<<"h", "d", "c", "p", " ", "o", "f", "f">>, response_lower) THEN Some("off")
    ELSE None

parse_window_input(resp) ==
    LET response_lower == lower(resp) IN
    IF contains(<<"h", "d", "m", "i", " ", "1">>, response_lower) THEN Some(1)
    ELSE IF contains(<<"h", "d", "m", "i", " ", "2">>, response_lower) THEN Some(2)
    ELSE IF contains(<<"h", "d", "m", "i", " ", "3">>, response_lower) THEN Some(3)
    ELSE IF contains(<<"h", "d", "m", "i", " ", "4">>, response_lower) THEN Some(4)
    ELSE None

parse_pip_position(resp) ==
    LET response_lower == lower(resp) IN
    IF contains(<<"l", "e", "f", "t", " ", "t", "o", "p">>, response_lower) THEN Some("left_top")
    ELSE IF contains(<<"l", "e", "f", "t", " ", "b", "o", "t", "t", "o", "m">>, response_lower) THEN Some("left_bottom")
    ELSE IF contains(<<"r", "i", "g", "h", "t", " ", "t", "o", "p">>, response_lower) THEN Some("right_top")
    ELSE IF contains(<<"r", "i", "g", "h", "t", " ", "b", "o", "t", "t", "o", "m">>, response_lower) THEN Some("right_bottom")
    ELSE None

parse_pip_size(resp) ==
    LET response_lower == lower(resp) IN
    IF contains(<<"s", "m", "a", "l", "l">>, response_lower) THEN Some("small")
    ELSE IF contains(<<"m", "i", "d", "d", "l", "e">>, response_lower) THEN Some("middle")
    ELSE IF contains(<<"l", "a", "r", "g", "e">>, response_lower) THEN Some("large")
    ELSE None

parse_aspect(resp) ==
    LET response_lower == lower(resp) IN
    IF contains(<<"f", "u", "l", "l">>, response_lower) THEN Some("full_screen")
    ELSE IF contains(<<"1", "6", ":", "9">>, response_lower) THEN Some("16_9")
    ELSE None

\* the keywords of each parser, in the order of its tests
Keywords(fn) ==
    CASE fn = "parse_power" -> <<POWER_ON, POWER_OFF>>
      [] fn = "parse_multiview_mode" ->
           <<<<"s", "i", "n", "g", "l", "e">>,
             <<"p", "i", "p">>,
             <<"p", "b", "p">>,
             <<"t", "r", "i", "p", "l", "e">>,
             <<"q", "u", "a", "d">>>>
      [] fn = "parse_audio_source" ->
           <<<<"f", "o", "l", "l", "o", "w">>,
             <<"h", "d", "m", "i", " ", "1">>,
             <<"h", "d", "m", "i", " ", "2">>,
             <<"h", "d", "m", "i", " ", "3">>,
             <<"h", "d", "m", "i", " ", "4">>>>
      [] fn = "parse_hdcp" ->
           <<<<"h", "d", "c", "p", " ", "1", ".", "4">>,
             <<"h", "d", "c", "p", " ", "2", ".", "2">>,
             <<"h", "d", "c", "p", " ", "o", "f", "f">>>>
      [] fn = "parse_window_input" ->
           <<<<"h", "d", "m", "i", " ", "1">>,
             <<"h", "d", "m", "i", " ", "2">>,
             <<"h", "d", "m", "i", " ", "3">>,
             <<"h", "d", "m", "i", " ", "4">>>>
      [] fn = "parse_pip_position" ->
           <<<<"l", "e", "f", "t", " ", "t", "o", "p">>,
             <<"l", "e", "f", "t", " ", "b", "o", "t", "t", "o", "m">>,
             <<"r", "i", "g", "h", "t", " ", "t", "o", "p">>,
             <<"r", "i", "g", "h", "t", " ", "b", "o", "t", "t", "o", "m">>>>
      [] fn = "parse_pip_size" ->
           <<<<"s", "m", "a", "l", "l">>,
             <<"m", "i", "d", "d", "l", "e">>,
             <<"l", "a", "r", "g", "e">>>>
      [] fn = "parse_aspect" ->
           <<<<"f", "u", "l", "l">>,
             <<"1", "6", ":", "9">>>>

\* the value each parser returns for the keyword at the same place
Values(fn) ==
    CASE fn = "parse_power" -> <<TRUE, FALSE>>
      [] fn = "parse_multiview_mode" -> <<"single", "pip", "pbp", "triple", "quad">>
      [] fn = "parse_audio_source" -> <<0, 1, 2, 3, 4>>
      [] fn = "parse_hdcp" -> <<"hdcp_1_4", "hdcp_2_2", "off">>
      [] fn = "parse_window_input" -> <<1, 2, 3, 4>>
      [] fn = "parse_pip_position" -> <<"left_top", "left_bottom", "right_top", "right_bottom">>
      [] fn = "parse_pip_size" -> <<"small", "middle", "large">>
      [] fn = "parse_aspect" -> <<"full_screen", "16_9">>

KeywordParsers ==
    {"parse_multiview_mode", "parse_audio_source", "parse_hdcp", "parse_window_input",
     "parse_pip_position", "parse_pip_size", "parse_aspect"}
Parsers == {"parse_power"} \cup KeywordParsers

\* the parser fn applied to the response resp
Apply(fn, resp) ==
    CASE fn = "parse_power" -> parse_power(resp)
      [] fn = "parse_multiview_mode" -> parse_multiview_mode(resp)
      [] fn = "parse_audio_source" -> parse_audio_source(resp)
      [] fn = "parse_hdcp" -> parse_hdcp(resp)
      [] fn = "parse_window_input" -> parse_window_input(resp)
      [] fn = "parse_pip_position" -> parse_pip_position(resp)
      [] fn = "parse_pip_size" -> parse_pip_size(resp)
      [] fn = "parse_aspect" -> parse_aspect(resp)

\* ---- the responses the parsers are applied to ----
upper(t) ==
    [i \in 1..Len(t) |->
        IF \E n \in 1..26 : Lowercase[n] = t[i]
        THEN Uppercase[CHOOSE n \in 1..26 : Lowercase[n] = t[i]]
        ELSE t[i]]
\* the first letter of each word in upper case
title(t) ==
    [i \in 1..Len(t) |-> IF i = 1 \/ t[i - 1] = " " THEN upper(<<t[i]>>)[1] ELSE t[i]]

\* pieces of text around a keyword k: k in three spellings, k without its last
\* character, and that character
Pieces(k) ==
    {k, upper(k), title(k), SubSeq(k, 1, Len(k) - 1), <<k[Len(k)]>>}
Tokens(fn) ==
    {<<"x">>} \cup UNION {Pieces(Keywords(fn)[n]) : n \in 1..Len(Keywords(fn))}

RECURSIVE Texts(_, _)
\* the texts of at most n tokens of the set T
Texts(T, n) ==
    IF n = 0 THEN {<<>>}
    ELSE LET shorter == Texts(T, n - 1) IN
         shorter \cup {t \o k : t \in shorter, k \in T}

InitParse ==
    /\ ceiling = 1
    /\ hist = FALSE
    /\ serial_handler = "set"
    /\ running = InitRunning
    /\ initialized = InitInitialized
    /\ serial = "none"
    /\ state = InitState
    /\ cached_power_state = "none"
    /\ last_heartbeat = 0
    /\ reconnect_delay = InitDelay
    /\ lock = "none"
    /\ waiters = <<>>
    /\ pc = [t \in Tasks |-> CASE t = "main" -> "init"
                               [] t \in Loops -> "none"
                               [] OTHER -> "idle"]
    /\ lines = [t \in Tasks |-> <<>>]
    /\ cancelled = {}
    /\ due = [t \in Loops |-> 0]
    /\ dropped = FALSE
    /\ fresh = TRUE
    /\ ev = NoEv
    /\ response = NoResponse
    /\ request = NoRequest
    /\ toggle = NoToggle
    /\ \E fn \in Parsers : \E t \in Texts(Tokens(fn), MaxTokens) :
         parse = [fn |-> fn, arg |-> t, done |-> FALSE, ret |-> None]

\* the call returns
Parse(fn) ==
    /\ parse.fn = fn /\ ~parse.done
    /\ parse' = [parse EXCEPT !.done = TRUE, !.ret = Apply(fn, parse.arg)]
    /\ UNCHANGED <<handler, serial_handler, response, request, toggle>>

NextParse == \E fn \in Parsers : Parse(fn)

SpecParse == InitParse /\ [][NextParse]_vars

\* ---- _check_power_state on the text of a reply ----
\* _check_power_state from the return of _send_command_internal on, the
\* response a str (<<>> is None: the drain returns no empty str)
check_power_state_text_mut(s, resp, t) ==
    IF resp # <<>>
    THEN IF contains(POWER_ON, resp)
         THEN [s EXCEPT !.state = ON, !.cached = "true", !.last = t]
         ELSE IF contains(POWER_OFF, resp)
         THEN [s EXCEPT !.state = OFF, !.cached = "false", !.last = t]
         ELSE [s EXCEPT !.state = ON, !.cached = "none", !.last = t]
    ELSE [s EXCEPT !.state = UNAVAILABLE]
check_power_state_text(s, resp, t) ==
    IF resp # <<>>
    THEN IF contains(POWER_ON, lower(resp))
         THEN [s EXCEPT !.state = ON, !.cached = "true", !.last = t]
         ELSE IF contains(POWER_OFF, lower(resp))
         THEN [s EXCEPT !.state = OFF, !.cached = "false", !.last = t]
         ELSE [s EXCEPT !.state = ON, !.cached = "none", !.last = t]
    ELSE [s EXCEPT !.state = UNAVAILABLE]

\* a connected handler in any state, and the reply its probe is about to get
InitProbe ==
    /\ ceiling = 1
    /\ hist = FALSE
    /\ serial_handler = "set"
    /\ running = TRUE
    /\ initialized = TRUE
    /\ serial = "open"
    /\ state \in ConnectionState
    /\ cached_power_state \in {"none", "true", "false"}
    /\ last_heartbeat \in 0..1
    /\ reconnect_delay = InitDelay
    /\ HandlerShape
    /\ lock = "none"
    /\ waiters = <<>>
    /\ pc = [t \in Tasks |-> CASE t = "main" -> "started"
                               [] t = "hb" -> "p_drain"
                               [] t = "rc" -> "none"
                               [] OTHER -> "idle"]
    /\ lines = [t \in Tasks |-> <<>>]
    /\ cancelled = {}
    /\ due = [t \in Loops |-> 0]
    /\ dropped = FALSE
    /\ fresh = TRUE
    /\ ev = NoEv
    /\ response = NoResponse
    /\ request = NoRequest
    /\ toggle = NoToggle
    /\ \E t \in Texts(Tokens("parse_power"), MaxTokens) :
         parse = [fn |-> "_check_power_state", arg |-> t, done |-> FALSE, ret |-> None]

\* the probe's exchange returns the reply and _check_power_state classifies it;
\* ret is what the power query (get_power: parse_power) makes of the same reply
ProbeReply ==
    /\ parse.fn = "_check_power_state" /\ ~parse.done
    /\ Commit(check_power_state_text(Self, parse.arg, now))
    /\ parse' = [parse EXCEPT !.done = TRUE, !.ret = parse_power(parse.arg)]
    /\ pc' = [pc EXCEPT !["hb"] = "sleep"]
    /\ UNCHANGED <<ceiling, running, initialized, lock, waiters, lines, cancelled,
                   hist, due, dropped, fresh, ev, serial_handler, response,
                   request, toggle>>

NextProbe == ProbeReply

SpecProbe == InitProbe /\ [][NextProbe]_vars

\* ---- _send_command_internal: the drain, on the text of the lines ----
\* the characters str.strip() removes, of those the lines here are made of
Whitespace == {" ", "\t", "\r", "\n"}

RECURSIVE lstrip(_)
lstrip(l) == IF l # <<>> /\ Head(l) \in Whitespace THEN lstrip(Tail(l)) ELSE l
RECURSIVE rstrip(_)
rstrip(l) ==
    IF l # <<>> /\ l[Len(l)] \in Whitespace THEN rstrip(SubSeq(l, 1, Len(l) - 1)) ELSE l
\* str.strip()
strip_mut(l) == l
strip(l) == rstrip(lstrip(l))

RECURSIVE response_lines(_)
\* response_lines once the lines raw have been read: each line stripped, and
\* appended if it is not empty then
response_lines(raw) ==
    IF raw = <<>> THEN <<>>
    ELSE LET line == strip(Head(raw)) IN
         (IF line # <<>> THEN <<line>> ELSE <<>>) \o response_lines(Tail(raw))

RECURSIVE join(_, _)
\* sep.join(ls)
join(sep, ls) ==
    IF ls = <<>> THEN <<>>
    ELSE IF Len(ls) = 1 THEN ls[1]
    ELSE ls[1] \o sep \o join(sep, Tail(ls))

\* what _send_command_internal returns when its drain has read the lines raw:
\* response if response else None
read_response(raw) ==
    LET resp == join(<<"\n">>, response_lines(raw)) IN
    IF resp # <<>> THEN Some(resp) ELSE None

\* what readline() may return: a blank line, a line of whitespace, a line with
\* its terminator, one with spaces around and inside, one cut by the timeout
RawLines ==
    {<<"\r", "\n">>,
     <<" ", "\t", "\r", "\n">>,
     <<"o", "k", "\r", "\n">>,
     <<" ", "a", " ", "b", " ", "\r", "\n">>,
     <<"x">>}

RECURSIVE Replies(_)
\* the replies of at most n lines
Replies(n) ==
    IF n = 0 THEN {<<>>}
    ELSE LET shorter == Replies(n - 1) IN
         shorter \cup {Append(r, l) : r \in shorter, l \in RawLines}

\* a send_command call has written its command on a connected handler and
\* its drain is about to read the reply arg
InitDrain ==
    /\ ceiling = 1
    /\ hist = FALSE
    /\ serial_handler = "set"
    /\ running = TRUE
    /\ initialized = TRUE
    /\ serial = "open"
    /\ state \in {ON, OFF}
    /\ cached_power_state \in {"none", "true", "false"}
    /\ last_heartbeat = 1
    /\ reconnect_delay = InitDelay
    /\ HandlerShape
    /\ lock = "c1"
    /\ waiters = <<>>
    /\ pc = [t \in Tasks |-> CASE t = "main" -> "started"
                               [] t = "hb" -> "sleep"
                               [] t = "rc" -> "none"
                               [] t = "c1" -> "drain"
                               [] OTHER -> "idle"]
    /\ lines = [t \in Tasks |-> <<>>]
    /\ cancelled = {}
    /\ due = [t \in Loops |-> 0]
    /\ dropped = FALSE
    /\ fresh = TRUE
    /\ ev = NoEv
    /\ response = NoResponse
    /\ request = NoRequest
    /\ toggle = NoToggle
    /\ \E r \in Replies(MaxRaw) :
         parse = [fn |-> "_send_command_internal", arg |-> r, done |-> FALSE, ret |-> None]

\* the drain reads the reply to its end and _send_command_internal returns;
\* send_command goes on from there
SendDrained ==
    /\ parse.fn = "_send_command_internal" /\ ~parse.done
    /\ pc["c1"] = "drain"
    /\ parse' = [parse EXCEPT !.done = TRUE, !.ret = read_response(parse.arg)]
    /\ Finish("c1", response_lines(parse.arg), "none")
    /\ UNCHANGED <<ceiling, hist, running, cancelled, serial_handler, response,
                   request, toggle>>

NextDrain == SendDrained

SpecDrain == InitDrain /\ [][NextDrain]_vars

\* ---- _send_command_internal: the text written ----
CRLF == <<"\r", "\n">>

\* command.endswith(suffix)
endswith(t, suffix) ==
    /\ Len(suffix) <= Len(t)
    /\ SubSeq(t, Len(t) - Len(suffix) + 1, Len(t)) = suffix

RECURSIVE rstrip_chars(_, _)
\* command.rstrip(chars): the trailing characters that are in chars removed
rstrip_chars(t, chars) ==
    IF t # <<>> /\ t[Len(t)] \in chars
    THEN rstrip_chars(SubSeq(t, 1, Len(t) - 1), chars)
    ELSE t

\* the text _send_command_internal writes for command
terminated_mut(command) ==
    IF ~endswith(command, CRLF) THEN command \o CRLF ELSE command
terminated(command) ==
    IF ~endswith(command, CRLF)
    THEN rstrip_chars(command, {"\r", "\n"}) \o CRLF
    ELSE command

\* what callers may pass: nothing, a command, a command with a line
\* terminator inside, each followed by up to n CR and LF characters
Bodies ==
    {<<>>, <<"r">>, <<"r", "!">>, <<"\r", "\n", "r">>, <<"r", "\n", "\r", "!">>}

RECURSIVE Tails(_)
Tails(n) ==
    IF n = 0 THEN {<<>>}
    ELSE LET shorter == Tails(n - 1) IN
         shorter \cup {Append(t, c) : t \in shorter, c \in {"\r", "\n"}}

\* a connected handler, and the command a caller passes; ret collects the
\* texts written
InitWrite ==
    /\ ceiling = 1
    /\ hist = FALSE
    /\ serial_handler = "set"
    /\ running = TRUE
    /\ initialized = TRUE
    /\ serial = "open"
    /\ state = ON
    /\ cached_power_state = "true"
    /\ last_heartbeat = 1
    /\ reconnect_delay = InitDelay
    /\ lock = "none"
    /\ waiters = <<>>
    /\ pc = [t \in Tasks |-> CASE t = "main" -> "started"
                               [] t = "hb" -> "sleep"
                               [] t = "rc" -> "none"
                               [] OTHER -> "idle"]
    /\ lines = [t \in Tasks |-> <<>>]
    /\ cancelled = {}
    /\ due = [t \in Loops |-> 0]
    /\ dropped = FALSE
    /\ fresh = TRUE
    /\ ev = NoEv
    /\ response = NoResponse
    /\ request = NoRequest
    /\ toggle = NoToggle
    /\ \E b \in Bodies : \E t \in Tails(MaxTail) :
         parse = [fn |-> "write", arg |-> b \o t, done |-> FALSE, ret |-> <<>>]

\* the command is written
Write ==
    /\ parse.fn = "write" /\ ~parse.done
    /\ parse.ret = <<>>
    /\ parse' = [parse EXCEPT !.ret = <<terminated(parse.arg)>>]
    /\ UNCHANGED <<handler, serial_handler, response, request, toggle>>

\* the text that was written is passed as a command and written again
WriteAgain ==
    /\ parse.fn = "write" /\ ~parse.done
    /\ Len(parse.ret) = 1
    /\ parse' = [parse EXCEPT !.ret = Append(@, terminated(parse.ret[1])),
                              !.done = TRUE]
    /\ UNCHANGED <<handler, serial_handler, response, request, toggle>>

NextWrite == Write \/ WriteAgain

SpecWrite == InitWrite /\ [][NextWrite]_vars

\* ---- _disconnect, with the outcome of close() ----
\* _disconnect when close(), if it is called, does c ("ok", or "raise": any
\* Exception): close() is called on an open handle only and its exception is
\* logged; raised tells whether _disconnect raises
disconnect_call_mut(s, c) ==
    IF is_connected(s) /\ c = "raise"
    THEN [s |-> s, raised |-> TRUE]
    ELSE [s |-> disconnect(s), raised |-> FALSE]
disconnect_call(s, c) == [s |-> disconnect(s), raised |-> FALSE]

\* a handler in any shape, connected or not; arg collects the calls of
\* _disconnect made (the handle before the call, what close() does) and ret
\* their outcomes
InitDisconnect ==
    /\ ceiling \in 1..MaxCeiling
    /\ hist = FALSE
    /\ serial_handler = "set"
    /\ running \in BOOLEAN
    /\ initialized = TRUE
    /\ serial \in {"none", "open"}
    /\ state \in ConnectionState
    /\ cached_power_state \in {"none", "true", "false"}
    /\ last_heartbeat \in 0..1
    /\ reconnect_delay \in 1..MaxCeiling
    /\ HandlerShape
    /\ serial = "none" => (state = UNAVAILABLE /\ cached_power_state = "none")
    /\ lock = "none"
    /\ waiters = <<>>
    /\ pc = [t \in Tasks |-> CASE t = "main" -> "started"
                               [] t = "hb" -> "sleep"
                               [] t = "rc" -> "none"
                               [] OTHER -> "idle"]
    /\ lines = [t \in Tasks |-> <<>>]
    /\ cancelled = {}
    /\ due = [t \in Loops |-> 0]
    /\ dropped = FALSE
    /\ fresh = TRUE
    /\ ev = NoEv
    /\ response = NoResponse
    /\ request = NoRequest
    /\ toggle = NoToggle
    /\ parse = [fn |-> "_disconnect", arg |-> <<>>, done |-> FALSE, ret |-> <<>>]

\* _disconnect is called
Disconnect ==
    /\ parse.fn = "_disconnect"
    /\ Len(parse.ret) < MaxCalls
    /\ \E c \in {"ok", "raise"} :
         LET r == disconnect_call(Self, c) IN
         /\ Commit(r.s)
         /\ parse' = [parse EXCEPT !.arg = Append(@, [was |-> serial, close |-> c]),
                                   !.ret = Append(@, r),
                                   !.done = TRUE]
    /\ UNCHANGED <<ceiling, running, initialized, lock, waiters, pc, lines,
                   cancelled, hist, due, dropped, fresh, ev, serial_handler,
                   response, request, toggle>>

NextDisconnect == Disconnect

SpecDisconnect == InitDisconnect /\ [][NextDisconnect]_vars

\* ---- routers: the set-type endpoints ----
\* get_audio, get_output, get_pbp_settings (and triple, quad) as called by the
\* set endpoints: the availability check, then queries whose failure is ignored
get_audio == <<"check", "get", "get", "get">>
get_output == <<"check", "get", "get", "get", "get">>
get_pbp_settings == <<"check", "get", "get">>

SetEndpoints ==
    {"set_power", "reboot_device", "factory_reset",
     "set_audio_source", "set_audio_volume", "increase_volume", "decrease_volume",
     "set_audio_mute", "toggle_mute",
     "set_multiview", "set_window_input", "set_input_source", "set_pip_settings",
     "set_pbp_settings", "set_triple_settings", "set_quad_settings",
     "set_resolution", "set_hdcp", "set_video_mode", "set_vka_pattern"}

\* the steps of endpoint e in the order of its code: "valid" is its own test of
\* a parameter, "check" is _check_device_available, "set" a setting command
\* whose failure is answered with command_failed, "get" a query. a and b: for
\* set_pip_settings, position and size are given, and otherwise queried; for
\* the pbp, triple and quad settings, mode and aspect are given
Program(e, a, b) ==
    CASE e = "set_power" -> <<"check", "set", "get">>
      [] e \in {"reboot_device", "factory_reset", "set_multiview",
                "set_window_input", "set_input_source"} -> <<"check", "set">>
      [] e \in {"set_audio_source", "set_audio_volume", "increase_volume",
                "decrease_volume", "set_audio_mute"} -> <<"check", "set">> \o get_audio
      [] e = "toggle_mute" -> <<"check", "get", "set">> \o get_audio
      [] e = "set_pip_settings" ->
           <<"check">> \o (IF a THEN <<"set">> ELSE <<>>) \o (IF b THEN <<"set">> ELSE <<>>)
             \o (IF a THEN <<>> ELSE <<"get">>) \o (IF b THEN <<>> ELSE <<"get">>)
      [] e \in {"set_pbp_settings", "set_triple_settings", "set_quad_settings"} ->
           <<"check">> \o (IF a THEN <<"set">> ELSE <<>>) \o (IF b THEN <<"set">> ELSE <<>>)
             \o get_pbp_settings
      [] e \in {"set_resolution", "set_hdcp", "set_video_mode"} ->
           <<"check", "set">> \o get_output
      [] e = "set_vka_pattern" -> <<"valid", "check", "set">> \o get_output

\* _check_device_available raises when the handler's state is UNAVAILABLE
check_device_available_mut(st) == FALSE
check_device_available(st) == st = UNAVAILABLE

RECURSIVE Advance(_, _)
\* request rq runs on from step rq.at, with the handler in state st, up to its
\* next send_command call or to its answer
Advance(rq, st) ==
    IF rq.at > Len(rq.prog) THEN [rq EXCEPT !.answer = Answer(200, "none", 0)]
    ELSE LET step == rq.prog[rq.at] IN
         CASE step = "valid" ->
                IF rq.valid THEN Advance([rq EXCEPT !.at = @ + 1], st)
                ELSE [rq EXCEPT !.answer = Answer(400, "invalid_parameter", 0)]
           [] step = "check" ->
                IF check_device_available(st)
                THEN [rq EXCEPT !.answer = Answer(503, "device_unavailable", 5)]
                ELSE Advance([rq EXCEPT !.at = @ + 1], st)
           [] OTHER -> [rq EXCEPT !.sends = @ + 1]

\* the handler as the endpoints meet it: initialized and started, in any shape
InitApi ==
    /\ ceiling = 1
    /\ hist = FALSE
    /\ serial_handler = "set"
    /\ running = TRUE
    /\ initialized = TRUE
    /\ serial \in {"none", "open"}
    /\ state \in ConnectionState
    /\ cached_power_state \in {"none", "true", "false"}
    /\ last_heartbeat \in 0..MaxTime
    /\ reconnect_delay = InitDelay
    /\ HandlerShape
    /\ lock = "none"
    /\ waiters = <<>>
    /\ pc = [t \in Tasks |-> CASE t = "main" -> "started"
                               [] t = "hb" -> "sleep"
                               [] t = "rc" -> "none"
                               [] OTHER -> "idle"]
    /\ lines = [t \in Tasks |-> <<>>]
    /\ cancelled = {}
    /\ due = [t \in Loops |-> 0]
    /\ dropped = FALSE
    /\ fresh = TRUE
    /\ ev = NoEv
    /\ response = NoResponse
    /\ parse = NoParse
    /\ request = NoRequest
    /\ toggle = NoToggle

\* a request arrives at endpoint e and is handled up to its first await
Handle(e) ==
    /\ request.endpoint = "none"
    /\ \E v, a, b \in BOOLEAN :
         /\ (e # "set_vka_pattern" => v)
         /\ (e \notin {"set_pip_settings", "set_pbp_settings", "set_triple_settings",
                       "set_quad_settings"} => (~a /\ ~b))
         /\ request' = Advance([NoRequest EXCEPT !.endpoint = e, !.valid = v,
                                  !.a = a, !.b = b, !.prog = Program(e, a, b),
                                  !.at = 1, !.entry = state], state)
    /\ UNCHANGED <<handler, serial_handler, response, parse, toggle>>

\* the send_command call the request awaits returns ok or not
SendReturns ==
    /\ request.endpoint # "none" /\ request.answer = NoAnswer
    /\ \E ok \in BOOLEAN :
         request' =
           IF request.prog[request.at] = "set" /\ ~ok
           THEN [request EXCEPT !.failed = TRUE,
                                !.answer = Answer(503, "command_failed", 5)]
           ELSE Advance([request EXCEPT !.at = @ + 1], state)
    /\ UNCHANGED <<handler, serial_handler, response, parse, toggle>>

\* while the request awaits, the handler's tasks move the handler on
HandlerMoves ==
    /\ request.endpoint # "none" /\ request.answer = NoAnswer
    /\ UNCHANGED <<ceiling, running, initialized, reconnect_delay, lock, waiters,
                   pc, lines, cancelled, hist, due, dropped, fresh, ev, api>>
    /\ serial' \in {"none", "open"}
    /\ state' \in ConnectionState
    /\ cached_power_state' \in {"none", "true", "false"}
    /\ last_heartbeat' \in last_heartbeat..MaxTime
    /\ HandlerShape'

NextApi ==
    \/ \E e \in SetEndpoints : Handle(e)
    \/ SendReturns
    \/ HandlerMoves

SpecApi == InitApi /\ [][NextApi]_vars

\* ---- routers/audio.py: toggle_mute, two requests and a responsive device ----
ToggleProgram == Program("toggle_mute", FALSE, FALSE)

\* what the device answers to "r output audio mute!" when its mute state is m
mute_reply(m) == IF m THEN MUTE_ON ELSE MUTE_OFF

\* current_muted = ResponseParser.parse_mute(response) or False
current_muted(resp) ==
    LET r == parse_mute(resp) IN IF r = None THEN FALSE ELSE r[1]

\* new_mute_value = 0 if current_muted else 1, as the mute state it asks for
new_mute_value(cm) == ~cm

RECURSIVE NextSend(_)
\* the step of the next send_command call from step k on, past the
\* availability checks that do not raise; beyond the program when the
\* request is answered
NextSend(k) ==
    IF k > Len(ToggleProgram) THEN k
    ELSE IF ToggleProgram[k] # "check" THEN k
    ELSE IF check_device_available(state) THEN Len(ToggleProgram) + 1
    ELSE NextSend(k + 1)

\* the handler connected to a device that is on; the device muted or not
InitToggle ==
    /\ ceiling = 1
    /\ hist = FALSE
    /\ serial_handler = "set"
    /\ running = TRUE
    /\ initialized = TRUE
    /\ serial = "open"
    /\ state = ON
    /\ cached_power_state = "true"
    /\ last_heartbeat = 1
    /\ reconnect_delay = InitDelay
    /\ lock = "none"
    /\ waiters = <<>>
    /\ pc = [t \in Tasks |-> CASE t = "main" -> "started"
                               [] t = "hb" -> "sleep"
                               [] t = "rc" -> "none"
                               [] OTHER -> "idle"]
    /\ lines = [t \in Tasks |-> <<>>]
    /\ cancelled = {}
    /\ due = [t \in Loops |-> 0]
    /\ dropped = FALSE
    /\ fresh = TRUE
    /\ ev = NoEv
    /\ response = NoResponse
    /\ parse = NoParse
    /\ request = NoRequest
    /\ \E m \in BOOLEAN : toggle = [NoToggle EXCEPT !.muted = m, !.before = m]

\* request c, its steps so far recorded in tg, goes on to its next
\* send_command call, the lock being free with queue w: it is answered, or it
\* takes the lock and writes, or it queues behind the waiters
ToggleSend(c, w, tg) ==
    /\ toggle' = tg
    /\ IF tg.at[c] > Len(ToggleProgram)
       THEN /\ pc' = [pc EXCEPT ![c] = "idle"]
            /\ lock' = "none"
            /\ waiters' = w
       ELSE IF w = <<>>
       THEN /\ pc' = [pc EXCEPT ![c] = "drain"]
            /\ lock' = c
            /\ waiters' = w
       ELSE /\ pc' = [pc EXCEPT ![c] = "wait"]
            /\ lock' = "none"
            /\ waiters' = Append(w, c)
    /\ UNCHANGED <<ceiling, running, initialized, serial, state, cached_power_state,
                   last_heartbeat, reconnect_delay, lines, cancelled, hist, due,
                   dropped, fresh, ev, serial_handler, response, parse, request>>

\* a toggle request arrives: the availability check, then its first
\* send_command call
ToggleArrive(c) ==
    /\ toggle.at[c] = 0
    /\ IF lock = "none"
       THEN ToggleSend(c, waiters, [toggle EXCEPT !.at[c] = NextSend(1)])
       ELSE /\ toggle' = [toggle EXCEPT !.at[c] = NextSend(1)]
            /\ pc' = [pc EXCEPT ![c] = "wait"]
            /\ waiters' = Append(waiters, c)
            /\ UNCHANGED <<ceiling, running, initialized, serial, state,
                           cached_power_state, last_heartbeat, reconnect_delay,
                           lines, cancelled, hist, due, dropped, fresh, ev,
                           serial_handler, response, parse, request, lock>>

\* the first waiter is woken by the release, takes the lock and writes
ToggleAcquire(c) ==
    /\ pc[c] = "wait"
    /\ lock = "none"
    /\ waiters # <<>> /\ wake_up(waiters).who = c
    /\ pc' = [pc EXCEPT ![c] = "drain"]
    /\ lock' = c
    /\ waiters' = wake_up(waiters).rest
    /\ UNCHANGED <<ceiling, running, initialized, serial, state, cached_power_state,
                   last_heartbeat, reconnect_delay, lines, cancelled, hist, due,
                   dropped, fresh, ev, api>>

\* the send_command call of request c returns with the device's reply and
\* releases the lock; the request runs on to its next call
ToggleReturn(c) ==
    /\ pc[c] = "drain"
    /\ lock = c
    /\ LET k == toggle.at[c]
           tg == CASE k = 2 ->
                        [toggle EXCEPT !.current_muted[c] =
                                          current_muted(mute_reply(toggle.muted))]
                   [] ToggleProgram[k] = "set" ->
                        [toggle EXCEPT !.muted = new_mute_value(toggle.current_muted[c])]
                   [] OTHER -> toggle
       IN ToggleSend(c, waiters, [tg EXCEPT !.at[c] = NextSend(k + 1)])

NextToggle ==
    \/ \E c \in Clients : ToggleArrive(c)
    \/ \E c \in Clients : ToggleAcquire(c)
    \/ \E c \in Clients : ToggleReturn(c)

SpecToggle == InitToggle /\ [][NextToggle]_vars

TypeOK ==
    /\ ceiling \in 1..MaxCeiling
    /\ running \in BOOLEAN /\ initialized \in BOOLEAN
    /\ serial \in {"none", "open"}
    /\ state \in ConnectionState
    /\ cached_power_state \in {"none", "true", "false"}
    /\ last_heartbeat \in 0..MaxTime
    /\ reconnect_delay \in 1..MaxCeiling
    /\ lock \in Clients \cup {"none"}
    /\ cancelled \subseteq Loops
    /\ hist \in BOOLEAN /\ dropped \in BOOLEAN /\ fresh \in BOOLEAN
    /\ serial_handler \in {"none", "set"}
    /\ response.path \in {"none", "/healthz/live", "/healthz/ready"}
    /\ response.code \in {0, 200, 503}
    /\ response.status \in {"none", "ok", "degraded", "error"}

\* ======================= properties =======================

SendResults == {"ok", "device_unavailable", "communication_error"}

\* C1: the exchanges of concurrent send_command calls are mutually exclusive:
\* while one call is between its write and the end of its drain, no other
\* send_command call is writing to or reading from the transport, and the call
\* that is holds the lock.
C1_SendExclusive ==
    \A c \in Clients :
        InExchange(c) => /\ lock = c
                         /\ \A d \in Clients \ {c} : ~InExchange(d)
\* one call is draining its reply while the other one waits for the lock
C1_Witness ==
    \E c \in Clients, d \in Clients :
        c # d /\ pc[c] = "drain" /\ lines[c] # <<>> /\ pc[d] = "wait" /\ waiters = <<d>>

\* C2: at most one exchange is in flight on the transport system-wide: a probe
\* of start, of the heartbeat or of a reconnect loop never overlaps a
\* send_command exchange or another probe.
C2_OneExchange == Cardinality({t \in Tasks : InExchange(t)}) <= 1

\* C3: when a probe completes, the state is a function of the reply alone:
\* UNAVAILABLE without a reply, ON if the reply has the powered-on indicator,
\* else OFF if it has the powered-off indicator, else ON with the cached power
\* unknown.
C3_ProbeResult ==
    ev.probe =>
        /\ ev.reply = <<>> => state = UNAVAILABLE
        /\ ContainsPowerOn(ev.reply) => state = ON
        /\ (ContainsPowerOff(ev.reply) /\ ~ContainsPowerOn(ev.reply)) => state = OFF
        /\ (ev.reply # <<>> /\ ~ContainsPowerOn(ev.reply) /\ ~ContainsPowerOff(ev.reply))
              => (state = ON /\ cached_power_state = "none")
\* a heartbeat probe got a reply with neither indicator
C3_Witness ==
    /\ ev.probe /\ ev.conn = "none"
    /\ ev.reply = <<"ok">>
    /\ state = ON /\ cached_power_state = "none"

\* C4: in every reachable state, for every ceiling >= 1, the backoff delay
\* is at least 1 and at most the ceiling.
C4_DelayBounds == 1 <= reconnect_delay /\ reconnect_delay <= ceiling
\* a loop sleeps with the delay capped at a ceiling that is not a power of two
C4_Witness ==
    /\ ceiling = 3 /\ reconnect_delay = 3
    /\ \E t \in Loops : pc[t] = "r_backoff"

\* C5: in a reconnect loop that begins with delay 1, the sleep after the k-th
\* consecutive failed attempt lasts min(2^(k-1), ceiling), and a successful
\* attempt leaves the delay at 1.
C5_BackoffSchedule ==
    /\ (ev.conn = "false" /\ ev.who \in Loops /\ due[ev.who] # 0)
          => reconnect_delay = due[ev.who]
    /\ (ev.conn = "true" /\ ev.who \in Loops) => reconnect_delay = InitDelay

\* C6: a successful connection resets the delay to 1, and the delay is still 1
\* when the first backoff sleep after it begins.
C6_OutageStartsAtOne ==
    /\ ev.conn = "true" => reconnect_delay = InitDelay
    /\ (ev.conn = "false" /\ ev.who \in Loops /\ ev.first) => reconnect_delay = InitDelay

\* C7: at most one instance of _try_reconnect is executing at any time.
C7_OneReconnectLoop == ~(InLoop("hb") /\ InLoop("rc"))

\* C8: is_initialized is false until start() has completed its one connection
\* attempt and true ever after, whatever the outcome; start() returns from that
\* one attempt without a backoff sleep and with the heartbeat task running.
C8_Initialized ==
    /\ pc["main"] \in {"init", "r_drain"} => ~initialized
    /\ pc["main"] \in {"started", "stop_hb", "stop_rc", "stopped"} => initialized
    /\ ev.ret = "started" =>
          /\ ev.who = "main" /\ ev.conn \in {"true", "false"}
          /\ reconnect_delay = InitDelay
          /\ pc["hb"] = "sleep" /\ "hb" \notin cancelled
\* start() has returned from a failed attempt
C8_Witness ==
    /\ ev.ret = "started" /\ ev.conn = "false"
    /\ initialized /\ state = UNAVAILABLE

\* C9: if the endpoint cannot be opened when start() runs, then when start()
\* returns the state is UNAVAILABLE, the transport is closed and a reconnect
\* loop has been scheduled whose first backoff delay is 1.
C9_StartSchedulesReconnect ==
    (ev.ret = "started" /\ ev.conn = "false") =>
        /\ state = UNAVAILABLE
        /\ ~is_connected(Self)
        /\ pc["rc"] \notin {"none", "done"}
        /\ reconnect_delay = InitDelay

\* C10: a send_command call that finds the transport not open returns
\* device_unavailable without a write or a read, and leaves the state (which
\* is UNAVAILABLE), the handle, the delay and the last contact unchanged.
C10_SendClosed ==
    [][(serial = "none" /\ lock = "none" /\ ev'.ret \in SendResults) =>
          /\ ev'.ret = "device_unavailable"
          /\ ~ev'.io
          /\ state = UNAVAILABLE
          /\ UNCHANGED <<state, serial, reconnect_delay, last_heartbeat>>]_vars
\* a call has just returned device_unavailable
C10_Witness ==
    /\ ev.ret = "device_unavailable"
    /\ serial = "none" /\ state = UNAVAILABLE

\* a reconnect task made by _schedule_reconnect exists and has not ended
ReconnectTaskActive == pc["rc"] \notin EndedPcs

\* C11: a send_command call on an open transport whose exchange gives no reply
\* text returns communication_error, and when it returns the transport is
\* closed, the state is UNAVAILABLE, the cached power state is cleared and,
\* if the system is running, a reconnect loop is active.
C11_SendNoReply ==
    ev.ret = "communication_error" =>
        /\ ev.io
        /\ serial = "none"
        /\ state = UNAVAILABLE
        /\ cached_power_state = "none"
        /\ running => ReconnectTaskActive
\* a call has failed after a probe had cached the power state, and its
\* failure made the reconnect task
C11_Witness ==
    /\ ev.ret = "communication_error" /\ ev.io
    /\ last_heartbeat # 0
    /\ serial = "none" /\ pc["rc"] = "start"

\* C12: after any send_command call that returns ok=false while the system
\* is running, with either error kind, the state is UNAVAILABLE and a
\* reconnect loop is running: the reconnect task, or the heartbeat task
\* inside _try_reconnect.
C12_FailureStartsReconnect ==
    (ev.ret \in {"device_unavailable", "communication_error"} /\ running) =>
        /\ state = UNAVAILABLE
        /\ ReconnectTaskActive \/ InLoop("hb")

\* the send_command calls in progress
Calls == {c \in Clients : pc[c] # "idle"}

\* C13: every send_command call returns exactly one of (true, non-empty reply,
\* none), (false, none, unavailable), (false, none, communication_error) and
\* never raises; any transport error during the exchange, also the handle
\* being closed by another task in the middle of it, surfaces as
\* communication_error.
C13_SendResult ==
    [][/\ Cardinality(Calls') < Cardinality(Calls) => ev'.ret \in SendResults
       /\ ev'.ret \in SendResults =>
            /\ ev'.ret = "ok" => ev'.reply # <<>>
            /\ ev'.ret # "ok" => ev'.reply = <<>>
            /\ ev'.fault # "none" => ev'.ret = "communication_error"
            /\ (dropped /\ ev'.io) => ev'.ret = "communication_error"]_vars

\* C14: if the handler is connected in state ON or OFF and a heartbeat probe
\* gets no reply, then at the end of that tick the transport is closed, the
\* state is UNAVAILABLE, the cached power state is cleared and a reconnect loop
\* is active; this holds at every such tick, so also after three in a row.
C14_HeartbeatNoReply ==
    (ev.probe /\ ev.conn = "none" /\ ev.reply = <<>> /\ ev.was \in {ON, OFF}) =>
        /\ serial = "none"
        /\ state = UNAVAILABLE
        /\ cached_power_state = "none"
        /\ ReconnectTaskActive
        /\ pc["hb"] = "sleep"
\* a heartbeat probe sent in state ON got no reply, and the tick made the
\* reconnect task
C14_Witness ==
    /\ ev.probe /\ ev.conn = "none" /\ ev.reply = <<>> /\ ev.was = ON
    /\ ev.fault = "none"
    /\ serial = "none" /\ pc["rc"] = "start"

\* C15: stop() closes the transport only after the heartbeat task and any
\* running reconnect task have been cancelled and have finished: when stop()
\* returns, which is the step of its _disconnect, no heartbeat or reconnect
\* task is running or waiting for its cancellation, the transport is closed
\* and the state is UNAVAILABLE; before that step stop() closes nothing.
C15_StopJoins ==
    /\ ev.ret = "stopped" =>
          /\ pc["main"] = "stopped" /\ ~running
          /\ pc["hb"] = "done"
          /\ pc["rc"] \in {"none", "done"}
          /\ cancelled = {}
          /\ serial = "none" /\ state = UNAVAILABLE
    /\ pc["main"] = "stop_rc" => pc["hb"] = "done"
    /\ pc["main"] = "stopped" => (pc["hb"] = "done" /\ pc["rc"] \in {"none", "done"})
\* stop() has returned after it had a reconnect loop to cancel, in a system
\* that had been in contact with the device
C15_Witness ==
    /\ ev.ret = "stopped" /\ pc["rc"] = "done" /\ pc["hb"] = "done"
    /\ last_heartbeat # 0 /\ reconnect_delay > InitDelay

\* ---- recovery ----
\* fair scheduling of the heartbeat task and of the reconnect task: a sleep
\* that is over, an exchange that is pending, a task that was just made; a
\* drain ends within self.timeout, whatever the device sends
FairTasks ==
    /\ WF_vars(HbTick)
    /\ WF_vars(RcStart)
    /\ \A t \in Loops : /\ WF_vars(Wake(t))
                         /\ WF_vars(Drain(t))
                         /\ WF_vars(Drain(t) /\ pc'[t] # pc[t])
SpecLive == Init /\ [][Next]_vars /\ FairTasks

\* start() has returned and stop() has not been called
Serving == pc["main"] = "started"
\* the step met a healthy endpoint: no connection attempt failed, nothing
\* raised on the transport, and a probe that completed had a reply unless
\* its handle had been dropped by another task
EndpointGood ==
    /\ ev.conn \notin {"false", "raise"}
    /\ ev.fault # "error"
    /\ ev.probe => (ev.reply # <<>> \/ ev.fault = "gone")
Recovered == serial = "open" /\ state \in {ON, OFF}

ProbeOk == ev.probe /\ ev.reply # <<>>
SendOk == ev.ret = "ok"

Older(c) == IF c = "c2" THEN {"c1"} \cap Calls ELSE {}

\* C18: send_command exchanges run in arrival order: while a call that
\* requested the lock earlier is still waiting or in its exchange, a later
\* call is not in its exchange (c1 names the older of two calls in progress).
C18_ArrivalOrder ==
    /\ pc["c2"] # "idle" => pc["c1"] # "idle"
    /\ \A c \in Clients : InExchange(c) => Older(c) = {}
\* two calls wait in arrival order for the lock, which a third call, since
\* returned, held when they arrived
C18_Witness == waiters = <<"c1", "c2">> /\ lock = "none"

\* the heartbeat task is inside its loop: asleep for the period, in its probe,
\* or in the _try_reconnect it runs itself
HeartbeatAlive == pc["hb"] \in {"sleep", "p_drain", "r_drain", "r_backoff"}

\* C19: a failure inside one heartbeat tick does not end the heartbeat loop.
\* While the system is started the heartbeat task is alive; a tick whose probe
\* met an error of the transport, a tick whose _disconnect ran, and a tick whose
\* reconnect attempt raised all leave the loop at its periodic wait, from where
\* the next tick runs; the task has ended only once the system is stopped.
C19_HeartbeatSurvives ==
    /\ Serving => HeartbeatAlive
    /\ pc["hb"] = "done" => ~running
    /\ (ev.who = "hb" /\ ev.conn = "raise") => pc["hb"] = "sleep"
    /\ (ev.probe /\ ev.conn = "none" /\ ev.reply = <<>>) => pc["hb"] = "sleep"

\* the heartbeat's own reconnect attempt raised after the handle was assigned,
\* and the loop is back at its periodic wait
C19_Witness ==
    /\ ev.who = "hb" /\ ev.conn = "raise"
    /\ serial = "open"
    /\ pc["hb"] = "sleep" /\ running

\* C20: the readiness probe answers 503 with status error exactly when no
\* handler is registered or the handler's is_initialized is false; otherwise it
\* answers 200, with status ok if the transport is connected and degraded if it
\* is not. The liveness probe always answers 200 with status ok.
C20_Probes ==
    /\ response.path = "/healthz/ready" =>
          /\ (response.code = 503) = (serial_handler = "none" \/ ~initialized)
          /\ (response.status = "error") = (response.code = 503)
          /\ response.code # 503 =>
                /\ response.code = 200
                /\ serial = "open" => response.status = "ok"
                /\ serial # "open" => response.status = "degraded"
    /\ response.path = "/healthz/live" =>
          response.code = 200 /\ response.status = "ok"

\* the readiness probe has answered for an initialized handler whose transport
\* is closed
C20_Witness ==
    /\ response.path = "/healthz/ready"
    /\ serial_handler = "set" /\ initialized /\ serial = "none"
    /\ response.code = 200 /\ response.status = "degraded"

\* keyword k occurs in text t, whatever the case of t's letters
OccursIn(k, t) ==
    \E i \in 1..Len(t) :
        /\ i + Len(k) - 1 <= Len(t)
        /\ \A j \in 1..Len(k) : t[i + j - 1] \in {k[j], upper(<<k[j]>>)[1]}

\* C21: parse_power is case-insensitive and total: it returns true if the
\* response contains "power on", otherwise false if it contains "power off",
\* otherwise none (including for the empty string).
C21_ParsePower ==
    (parse.fn = "parse_power" /\ parse.done) =>
        LET r == parse.ret IN
        /\ r \in {Some(TRUE), Some(FALSE), None}
        /\ OccursIn(POWER_ON, parse.arg) => r = Some(TRUE)
        /\ (~OccursIn(POWER_ON, parse.arg) /\ OccursIn(POWER_OFF, parse.arg)) => r = Some(FALSE)
        /\ (~OccursIn(POWER_ON, parse.arg) /\ ~OccursIn(POWER_OFF, parse.arg)) => r = None
        /\ parse.arg = <<>> => r = None

\* parse_power has returned false for a response that spells "power off" with
\* upper-case letters
C21_Witness ==
    /\ parse.fn = "parse_power" /\ parse.done /\ parse.ret = Some(FALSE)
    /\ parse.arg # lower(parse.arg)
    /\ OccursIn(POWER_OFF, parse.arg)

\* the places of fn's keywords that occur in text t
Occurring(fn, t) == {n \in 1..Len(Keywords(fn)) : OccursIn(Keywords(fn)[n], t)}

\* C22: each keyword parser returns the value of the first keyword, in its
\* fixed priority order, that occurs case-insensitively anywhere in the
\* response, and none when no keyword occurs.
C22_KeywordParsers ==
    (parse.fn \in KeywordParsers /\ parse.done) =>
        LET found == Occurring(parse.fn, parse.arg) IN
        /\ found = {} => parse.ret = None
        /\ found # {} =>
              parse.ret = Some(Values(parse.fn)[CHOOSE n \in found : \A m \in found : n <= m])

\* a keyword parser has returned the value of a keyword spelled with upper-case
\* letters although a keyword of lower priority occurs in the response too
C22_Witness ==
    /\ parse.fn \in KeywordParsers /\ parse.done /\ parse.ret # None
    /\ Cardinality(Occurring(parse.fn, parse.arg)) > 1
    /\ parse.arg # lower(parse.arg)

\* C23 (as stated): for every set-type endpoint, if ConnectionState is
\* UNAVAILABLE when the request is handled, the endpoint answers 503
\* device_unavailable with retry_after 5 and calls send_command zero times; if
\* its setting command's send_command returns ok=false, it answers 503
\* command_failed with retry_after 5 and never a success response.
C23_SetEndpoints ==
    request.endpoint \in SetEndpoints =>
        /\ request.entry = UNAVAILABLE =>
              /\ request.answer = Answer(503, "device_unavailable", 5)
              /\ request.sends = 0
        /\ request.failed => request.answer = Answer(503, "command_failed", 5)

\* C23 (amended): the same for every request that passes the endpoint's own
\* test of its parameters; a request that does not is answered 400
\* invalid_parameter, with no send_command call, whatever the ConnectionState.
C23_ValidSetRequests ==
    request.endpoint \in SetEndpoints =>
        /\ (request.entry = UNAVAILABLE /\ request.valid) =>
              /\ request.answer = Answer(503, "device_unavailable", 5)
              /\ request.sends = 0
        /\ ~request.valid =>
              /\ request.answer = Answer(400, "invalid_parameter", 0)
              /\ request.sends = 0
        /\ request.failed => request.answer = Answer(503, "command_failed", 5)

\* a request that found the device available has been answered command_failed
\* after its second setting command returned ok=false
C23_Witness ==
    /\ request.endpoint = "set_pip_settings" /\ request.entry # UNAVAILABLE
    /\ request.failed /\ request.sends = 2
    /\ request.answer = Answer(503, "command_failed", 5)

\* a heartbeat tick is in progress: the period's sleep has ended and the loop
\* is not back at it
InTick == pc["hb"] \in {"p_drain", "r_drain", "r_backoff"}

\* C24: while the system runs, every heartbeat tick finishes and the loop
\* returns to its periodic wait, so ticks keep occurring for as long as the
\* system runs, even while the endpoint stays unavailable.
C24_TicksFinish == InTick ~> (pc["hb"] = "sleep" \/ ~running)

\* ---- C25 ----
\* C25: whenever a reconnect loop (the reconnect task's, or the one the
\* heartbeat runs) stops looping while the system is running because its
\* connection attempt returned True, the transport is open and the
\* ConnectionState is ON or OFF
C25_LoopEndsConnected ==
    (ev.conn = "true" /\ ev.who \in Loops /\ running)
        => (serial = "open" /\ state \in {ON, OFF})

\* ---- C26 ----
\* a connection attempt is in progress (start's, or a reconnect loop's, at its
\* probe), or a heartbeat probe is
Attempting == pc["main"] = "r_drain" \/ \E t \in Loops : pc[t] \in {"r_drain", "p_drain"}

\* C26: whenever no connection attempt and no probe is in progress,
\* ConnectionState UNAVAILABLE implies that the transport is closed
\* (is_connected is false)
C26_UnavailableClosed ==
    (~Attempting /\ state = UNAVAILABLE) => ~is_connected(Self)

\* ---- C27 ----
\* C27: in every state another task can observe, ConnectionState ON or OFF
\* implies that the transport handle is present and open
C27_OnOffOpen == state \in {ON, OFF} => serial = "open"

\* ON or OFF again after a send_command failure and the reconnect task's
\* connection, with a heartbeat probe and a send_command exchange in progress
C27_Witness ==
    /\ state \in {ON, OFF}
    /\ pc["rc"] = "done"
    /\ pc["hb"] = "p_drain"
    /\ pc["c1"] = "drain"

\* ---- C28 ----
\* C28: once stop() has returned (start() is not called again: the position
\* "stopped" is final), the transport is not open and ConnectionState is
\* UNAVAILABLE, also when a send_command exchange that was in progress during
\* stop() fails afterwards and schedules a reconnect
C28_StoppedStaysClosed ==
    pc["main"] = "stopped" => (serial = "none" /\ state = UNAVAILABLE)

\* stop() has returned and a reconnect task is scheduled: stop() joined the
\* one there was, so this one was made afterwards by a failed send_command
C28_Witness == pc["main"] = "stopped" /\ pc["rc"] = "start"

\* ---- C29 ----
\* what the last step did was a failure or a stop: a send_command that returned
\* an error, a probe that got no reply, a connection attempt that returned
\* False or raised, stop() returning or raising
Failure ==
    \/ ev.ret \in {"communication_error", "device_unavailable", "stopped",
                   "stop_raised", "start_raised"}
    \/ ev.conn \in {"false", "raise"}
    \/ (ev.probe /\ ev.reply = <<>>)

Answered(c) == toggle.at[c] > Len(ToggleProgram)

\* C30: between a toggle request's read of the mute state and its write of
\* the inverted state no other send_command exchange takes place, and two
\* toggle requests that have both succeeded leave the device's mute state
\* equal to its value before them
C30_ToggleAtomic ==
    /\ \A c \in Clients :
         (toggle.at[c] = 3 /\ ToggleProgram[3] = "set")
             => \A d \in Clients \ {c} : pc[d] # "drain"
    /\ (\A c \in Clients : Answered(c)) => toggle.muted = toggle.before

\* ---- C31 ----
\* C31: for every reply text the probe's classification agrees with the power
\* query: _check_power_state sets ON with cached power true exactly when
\* parse_power returns true, OFF with cached power false exactly when it
\* returns false, and ON with cached power unknown exactly when the reply is
\* not empty and parse_power returns none
C31_ProbeAgrees ==
    (parse.fn = "_check_power_state" /\ parse.done) =>
        /\ (state = ON /\ cached_power_state = "true") <=> parse.ret = Some(TRUE)
        /\ (state = OFF /\ cached_power_state = "false") <=> parse.ret = Some(FALSE)
        /\ (state = ON /\ cached_power_state = "none")
              <=> (parse.arg # <<>> /\ parse.ret = None)

\* the probe has classified a reply that spells "power off" with upper-case
\* letters
C31_Witness ==
    /\ parse.fn = "_check_power_state" /\ parse.done
    /\ state = OFF
    /\ parse.arg # lower(parse.arg)
    /\ OccursIn(POWER_OFF, parse.arg)

\* ---- C32 ----
\* the line l has a character that is not whitespace
NonBlank(l) == \E i \in 1..Len(l) : l[i] \notin Whitespace
\* l from its first to its last character that is not whitespace
Core(l) ==
    LET solid == {i \in 1..Len(l) : l[i] \notin Whitespace} IN
    SubSeq(l, CHOOSE i \in solid : \A j \in solid : i <= j,
              CHOOSE i \in solid : \A j \in solid : i >= j)
\* the places in the reply r of its lines that are not blank
Kept(r) == {i \in 1..Len(r) : NonBlank(r[i])}

RECURSIVE Joined(_, _)
\* the lines of r at the places K, in order, with one newline between them
Joined(r, K) ==
    IF K = {} THEN <<>>
    ELSE LET i == CHOOSE m \in K : \A n \in K : m <= n IN
         Core(r[i]) \o (IF K = {i} THEN <<>> ELSE <<"\n">> \o Joined(r, K \ {i}))

\* C32: the drain of a reply returns none exactly when it collected no
\* non-empty line, and otherwise the non-empty lines in arrival order joined
\* by a single newline; a reply of blank or whitespace lines only is no
\* reply: send_command returns communication_error and disconnects
C32_Drain ==
    (parse.fn = "_send_command_internal" /\ parse.done) =>
        /\ parse.ret = None <=> Kept(parse.arg) = {}
        /\ Kept(parse.arg) # {} =>
              /\ parse.ret = Some(Joined(parse.arg, Kept(parse.arg)))
              /\ ev.ret = "ok" /\ serial = "open"
        /\ Kept(parse.arg) = {} =>
              /\ ev.ret = "communication_error"
              /\ serial = "none" /\ state = UNAVAILABLE

\* a reply of two or more lines, all blank or whitespace, was drained: the
\* send_command call returned communication_error and disconnected
C32_Witness ==
    /\ parse.fn = "_send_command_internal" /\ parse.done
    /\ Len(parse.arg) >= 2
    /\ \E i \in 1..Len(parse.arg) : Len(parse.arg[i]) > 2
    /\ parse.ret = None
    /\ ev.ret = "communication_error" /\ serial = "none"

\* ---- C33 ----
\* t up to its last character that is neither CR nor LF
Trimmed(t) ==
    LET solid == {i \in 1..Len(t) : t[i] \notin {"\r", "\n"}} IN
    IF solid = {} THEN <<>>
    ELSE SubSeq(t, 1, CHOOSE i \in solid : \A j \in solid : i >= j)

\* C33: the text written for a command always ends with CR LF: a command that
\* ends with CR LF is written unchanged, any other command has its trailing CR
\* and LF characters stripped and one CR LF appended; normalising the text
\* written again gives the same text
C33_Terminated ==
    (parse.fn = "write" /\ parse.ret # <<>>) =>
        LET command == parse.arg
            written == parse.ret[1]
            n == Len(written)
        IN /\ n >= 2 /\ written[n - 1] = "\r" /\ written[n] = "\n"
           /\ endswith(command, CRLF) => written = command
           /\ ~endswith(command, CRLF) => written = Trimmed(command) \o CRLF
           /\ Len(parse.ret) = 2 => parse.ret[2] = written

\* a command ending in LF CR was written with these stripped, and the text
\* written was normalised again
C33_Witness ==
    /\ parse.fn = "write" /\ Len(parse.ret) = 2
    /\ endswith(parse.arg, <<"\n", "\r">>)
    /\ Len(parse.ret[1]) < Len(parse.arg) + 2

\* ---- C34 ----
\* C34: _disconnect is idempotent: called on a closed transport, or again after
\* a call, it leaves what one call leaves (no handle, UNAVAILABLE, cached power
\* cleared, the other fields as they were) and it never raises, also when
\* close() fails
C34_DisconnectIdempotent ==
    (parse.fn = "_disconnect" /\ parse.ret # <<>>) =>
        /\ serial = "none" /\ state = UNAVAILABLE /\ cached_power_state = "none"
        /\ \A i \in 1..Len(parse.ret) :
             /\ ~parse.ret[i].raised
             /\ parse.ret[i].s = parse.ret[1].s
        /\ parse.ret[Len(parse.ret)].s = Self

\* _disconnect was called on an open handle whose close() failed, and again
\* on the closed transport
C34_Witness ==
    /\ parse.fn = "_disconnect" /\ Len(parse.ret) = 2
    /\ parse.arg[1].was = "open" /\ parse.arg[1].close = "raise"
    /\ parse.arg[2].was = "none"

\* ---- C35 ----
\* C35: after the one start(), a connection attempt opens the endpoint only
\* when the handler holds no open handle: no open handle is replaced without
\* being closed, and at most one handle is open at any time
C35_OneHandle == ev.opened # "over"

\* the reconnect task has opened the endpoint, with no handle held, while the
\* heartbeat runs a reconnect loop of its own and waits in its backoff sleep
C35_Witness ==
    /\ ev.opened = "new"
    /\ pc["rc"] = "r_drain"
    /\ pc["hb"] = "r_backoff"

====
